---- MODULE Spec2Model ----
(***************************************************************************)
(* Model of make_plots (src/plot.py): the report generator that reads one  *)
(* recorded simulation run, reshapes its history into series, renders the  *)
(* charts into <output_dir>/plots/ and writes plots/index.html.            *)
(*                                                                         *)
(* Python dicts are insertion ordered; a dict is modelled as a sequence    *)
(* of <<key, value>> pairs with distinct keys.  A chart is the record of   *)
(* what was drawn on the figure when savefig was called.                   *)
(***************************************************************************)
EXTENDS Integers, Sequences, FiniteSets, TLC

\* Longest history enumerated.
MaxMonths == 2

VARIABLES
    pc,            \* position in make_plots
    err,           \* the exception that ended the run ("" while none)
    plotsExists,   \* whether <output_dir>/plots/ exists
    configExists,  \* whether <output_dir>/config.yaml exists
    plotsDir,      \* file name -> content, the files in plots/
    opened,        \* the input files opened so far, in order
    meta, history, init, config,
    neighbs,       \* what meta.pop('neighborhoods') returned (line 114)
    by_neighb, by_landlord,
    stats, neighborhoods, landlords,
    fnames,
    saved,         \* the charts passed to savefig, in order
    ii,            \* position of the init loop (line 45)
    gi,            \* position of the generic loop (line 77)
    index          \* what was written to plots/index.html

vars == <<pc, err, plotsExists, configExists, plotsDir, opened, meta, history,
          init, config, by_neighb, by_landlord, stats, neighborhoods,
          landlords, fnames, saved, ii, gi, index, neighbs>>

----------------------------------------------------------------------------
\* Insertion-ordered dicts.

Keys(d) == [i \in 1..Len(d) |-> d[i][1]]

Has(d, k) == \E i \in 1..Len(d) : d[i][1] = k

Get(d, k) == d[CHOOSE i \in 1..Len(d) : d[i][1] = k][2]

\* d[k] = v: a new key goes last, an existing key keeps its place.
Put(d, k, v) ==
    IF Has(d, k)
    THEN [i \in 1..Len(d) |-> IF d[i][1] = k THEN <<k, v>> ELSE d[i]]
    ELSE Append(d, <<k, v>>)

\* Del with the deletion left out.
Del_Kept(d, k) == d

\* del d[k]
Del(d, k) == SelectSeq(d, LAMBDA p : p[1] # k)

\* defaultdict(list): d[k] for reading; a missing key reads as [] ...
Lookup(d, k) == IF Has(d, k) THEN Get(d, k) ELSE <<>>

\* ... and is inserted by the read.
Touch(d, k) == IF Has(d, k) THEN d ELSE Append(d, <<k, <<>>>>)

Range(s) == {s[i] : i \in 1..Len(s)}

----------------------------------------------------------------------------
\* The reshaping loops (lines 21-39).

\* neighborhoods[k][neighb].append(v) on a defaultdict of defaultdict(list)
AppendNested(acc, k, id, v) ==
    LET inner == Lookup(acc, k)
    IN  Put(acc, k, Put(inner, id, Append(Lookup(inner, id), v)))

RECURSIVE FoldStats(_, _, _, _)
FoldStats(acc, id, sts, i) ==
    IF i > Len(sts) THEN acc
    ELSE FoldStats(AppendNested(acc, sts[i][1], id, sts[i][2]), id, sts, i + 1)

RECURSIVE FoldEntities(_, _, _)
FoldEntities(acc, h, j) ==
    IF j > Len(h) THEN acc
    ELSE FoldEntities(FoldStats(acc, h[j][1], h[j][2], 1), h, j + 1)

RECURSIVE FoldBreakdown(_, _, _)
FoldBreakdown(acc, by, m) ==
    IF m > Len(by) THEN acc
    ELSE FoldBreakdown(FoldEntities(acc, by[m], 1), by, m + 1)

\* FoldMonth with stats[k] = [v] in place of stats[k].append(v).
RECURSIVE FoldMonth_Assign(_, _, _)
FoldMonth_Assign(acc, month, i) ==
    IF i > Len(month) THEN acc
    ELSE FoldMonth_Assign(Put(acc, month[i][1], <<month[i][2]>>), month, i + 1)

\* stats[k].append(v) for every item of one month
RECURSIVE FoldMonth(_, _, _)
FoldMonth(acc, month, i) ==
    IF i > Len(month) THEN acc
    ELSE FoldMonth(Put(acc, month[i][1], Append(Lookup(acc, month[i][1]), month[i][2])),
                   month, i + 1)

RECURSIVE FoldHistory(_, _, _)
FoldHistory(acc, hist, m) ==
    IF m > Len(hist) THEN acc
    ELSE FoldHistory(FoldMonth(acc, hist[m].stats, 1), hist, m + 1)

----------------------------------------------------------------------------
\* The run records enumerated as the content of output.json.

rents_keys == <<"mean_rent_per_area", "mean_adjusted_rent_per_area">>

fund_keys == <<"doma_property_fund", "mean_value", "min_value">>

AllKeys == rents_keys \o fund_keys \o <<"rent", "vacant">>

KeyNo(k) == CHOOSE i \in 1..Len(AllKeys) : AllKeys[i] = k

\* Orders in which a month lists its scalar stat fields.
ScalarLayouts ==
    { AllKeys,
      <<"rent", "min_value", "mean_value", "doma_property_fund",
        "mean_adjusted_rent_per_area", "mean_rent_per_area", "vacant">>,
      <<"rent">>,
      <<"mean_rent_per_area", "mean_adjusted_rent_per_area",
        "doma_property_fund", "mean_value", "rent">> }

\* A month's "neighborhoods" field: id -> the stat keys broken down for it.
NeighbLayouts ==
    { [present |-> TRUE,  ents |-> <<>>],
      [present |-> TRUE,  ents |-> << <<"A", <<"rent">>>> >>],
      [present |-> TRUE,  ents |-> << <<"B", <<"rent", "min_value">>>>,
                                      <<"A", <<"rent">>>> >>],
      [present |-> FALSE, ents |-> <<>>] }

\* A month's "landlords" field.
LandlordLayouts ==
    { [present |-> TRUE,  ents |-> <<>>],
      [present |-> TRUE,  ents |-> << <<"-1", <<"rent">>>>,
                                      <<"0", <<"rent", "mean_value">>>> >>],
      [present |-> TRUE,  ents |-> << <<"0", <<"mean_value">>>>,
                                      <<"-1", <<"mean_value", "min_value">>>>,
                                      <<"1", <<"mean_value">>>> >>],
      [present |-> FALSE, ents |-> <<>>] }

NoEntry == [hasName |-> FALSE, name |-> ""]

Metas ==
    { [hasNeighborhoods |-> FALSE, neighborhoods |-> <<>>,
       other |-> << <<"seed", "1">> >>],
      [hasNeighborhoods |-> TRUE,
       neighborhoods |-> << <<"A", [hasName |-> TRUE, name |-> "Alpha"]>> >>,
       other |-> << <<"seed", "1">>, <<"design", "baseline">> >>],
      [hasNeighborhoods |-> TRUE,
       neighborhoods |-> << <<"A", [hasName |-> TRUE, name |-> "Alpha"]>>,
                            <<"B", NoEntry>> >>,
       other |-> <<>>] }

Inits ==
    { <<>>,
      << <<"value", <<3, 1, 2>>>>, <<"rent", <<5>>>> >> }

\* A month either carries every field of the run's layout, or lacks the last
\* scalar field, or lacks the last entity of each breakdown.
Variants == {"full", "thinStats", "thinBreak"}

Front(s) == IF Len(s) = 0 THEN s ELSE SubSeq(s, 1, Len(s) - 1)

MkStats(m, ks) == [i \in 1..Len(ks) |-> <<ks[i], 100 * m + KeyNo(ks[i])>>]

MkBreakdown(m, ents) ==
    [j \in 1..Len(ents) |->
        <<ents[j][1],
          [i \in 1..Len(ents[j][2]) |->
              <<ents[j][2][i], 100 * m + 10 * j + KeyNo(ents[j][2][i])>>]>>]

MkMonth(m, sl, nl, ll, variant) ==
    [stats         |-> MkStats(m, IF variant = "thinStats" THEN Front(sl) ELSE sl),
     hasNeighb     |-> nl.present,
     neighborhoods |-> MkBreakdown(m, IF variant = "thinBreak" THEN Front(nl.ents) ELSE nl.ents),
     hasLandlords  |-> ll.present,
     landlords     |-> MkBreakdown(m, IF variant = "thinBreak" THEN Front(ll.ents) ELSE ll.ents)]

Shapes == UNION {[1..n -> Variants] : n \in 0..MaxMonths}

RunRecords ==
    { [meta    |-> mt,
       history |-> [m \in 1..Len(sh) |-> MkMonth(m, sl, nl, ll, sh[m])],
       init    |-> it] :
      mt \in Metas, it \in Inits, sl \in ScalarLayouts, nl \in NeighbLayouts,
      ll \in LandlordLayouts, sh \in Shapes }

----------------------------------------------------------------------------
\* Charts.

Line(label, ys, color) == [label |-> label, ys |-> ys, color |-> color]

\* What savefig writes: the figure's title, its lines in drawing order, the
\* sample a histogram was drawn from, and whether legend() was called.
Chart(fname, title, lines, hist, legend) ==
    [fname |-> fname, title |-> title, lines |-> lines, hist |-> hist,
     legend |-> legend]

percentiles == <<"25", "75", "90", "99">>

colors == <<"g", "c", "b", "k">>

\* lines 46-54
InitChart(k, vals) ==
    Chart(k \o "_init.png", k \o " (init)",
          [i \in 1..Len(percentiles) |-> Line(percentiles[i] \o "%", <<>>, colors[i])],
          vals, TRUE)

\* stats[k] read for each k of ks in turn (lines 59, 69)
RECURSIVE TouchAll(_, _, _)
TouchAll(d, ks, i) ==
    IF i > Len(ks) THEN d ELSE TouchAll(Touch(d, ks[i]), ks, i + 1)

\* lines 57-64 and 67-74
FixedChart(name, ks, st) ==
    Chart(name \o ".png", name,
          [i \in 1..Len(ks) |-> Line(ks[i], Lookup(st, ks[i]), "")],
          <<>>, TRUE)

\* line 86: meta['neighborhoods'].get(neighb, {'name': ...})['name'] raises
LabelFails(neighb) ==
    \/ ~meta.hasNeighborhoods
    \/ /\ Has(meta.neighborhoods, neighb)
       /\ ~Get(meta.neighborhoods, neighb).hasName

\* NeighbLabel with the raw id as the default label.
NeighbLabel_RawId(neighb) ==
    IF Has(meta.neighborhoods, neighb)
    THEN Get(meta.neighborhoods, neighb).name
    ELSE neighb

\* lines 86-87: the label of a neighborhood's line
NeighbLabel(neighb) ==
    IF Has(meta.neighborhoods, neighb)
    THEN Get(meta.neighborhoods, neighb).name
    ELSE "Neighborhood " \o neighb

\* LandlordLine with the id compared to the number -1, which no JSON key equals.
LandlordLine_IntCompare(id, vs) == Line("Landlord " \o id, vs, "")

\* lines 98-101: the line of one landlord
LandlordLine(id, vs) ==
    IF id = "-1"
    THEN Line("DOMA", vs, "#f771b4")
    ELSE Line("Landlord " \o id, vs, "")

\* plt.plot(range(len(vals)), vs) raises ValueError when the lengths differ
PlotFails(vals, vs) == Len(vs) # Len(vals)

\* lines 85-87: the exception of the first neighborhood line that raises one
NeighbError(k, vals) ==
    LET nb  == Get(neighborhoods, k)
        bad == {j \in 1..Len(nb) : LabelFails(nb[j][1]) \/ PlotFails(vals, nb[j][2])}
        j0  == CHOOSE j \in bad : \A j2 \in bad : j <= j2
    IN  IF bad = {} THEN ""
        ELSE IF LabelFails(nb[j0][1]) THEN "KeyError" ELSE "ValueError"

\* lines 83-91
NeighbChart(k, vals) ==
    LET nb == Get(neighborhoods, k)
    IN  Chart(k \o "_neighb.png", k,
              <<Line("All", vals, "")>> \o
                  [j \in 1..Len(nb) |-> Line(NeighbLabel(nb[j][1]), nb[j][2], "")],
              <<>>, TRUE)

\* lines 97-101
LandlordError(k, vals) ==
    LET ll == Get(landlords, k)
    IN  IF \E j \in 1..Len(ll) : PlotFails(vals, ll[j][2]) THEN "ValueError" ELSE ""

\* lines 95-105
LandlordChart(k, vals) ==
    LET ll == Get(landlords, k)
    IN  Chart(k \o "_landlords.png", k,
              <<Line("All", vals, "")>> \o
                  [j \in 1..Len(ll) |-> LandlordLine(ll[j][1], ll[j][2])],
              <<>>, TRUE)

\* IsSolo with solo never reset.
IsSolo_Always(nb, ll) == TRUE

\* IsSolo with solo reset by the neighborhood chart alone.
IsSolo_OnlyNeighb(nb, ll) == ~nb

\* lines 78, 82, 94, 107: solo stays True only when neither chart was drawn
IsSolo(nb, ll) == ~nb /\ ~ll

\* lines 108-112
SoloChart(k, vals) ==
    Chart(k \o ".png", k, <<Line("", vals, "")>>, <<>>, FALSE)

\* line 133
ImgTag(fname) == "<img style=\"width:400px;\" src=\"" \o fname \o "\">"

----------------------------------------------------------------------------
\* make_plots, step by step.

NoIndex == [written |-> FALSE, imgs |-> <<>>, meta |-> <<>>, config |-> ""]

\* What a previous report left in plots/.
OldPlots == {"index.html", "rents.png", "old_stat.png"}

Init ==
    /\ pc = "mkdir"
    /\ err = ""
    /\ plotsExists \in BOOLEAN
    /\ configExists \in BOOLEAN
    /\ plotsDir = IF plotsExists THEN OldPlots ELSE {}
    /\ opened = <<>>
    /\ meta = [hasNeighborhoods |-> FALSE, neighborhoods |-> <<>>, other |-> <<>>]
    /\ history = <<>>
    /\ init = <<>>
    /\ config = ""
    /\ by_neighb = <<>>
    /\ by_landlord = <<>>
    /\ stats = <<>>
    /\ neighborhoods = <<>>
    /\ landlords = <<>>
    /\ fnames = <<>>
    /\ saved = <<>>
    /\ ii = 1
    /\ gi = 1
    /\ index = NoIndex
    /\ neighbs = <<>>

\* An uncaught exception ends the run.
Raise(e) == pc' = "failed" /\ err' = e

\* Save with the file names collected newest first.
Save_Prepend(charts) ==
    /\ fnames' = [i \in 1..Len(charts) |-> charts[i].fname] \o fnames
    /\ saved' = saved \o charts
    /\ plotsDir' = plotsDir \cup {charts[i].fname : i \in 1..Len(charts)}

\* fnames.append(fname); plt.savefig(...); plt.close()
Save(charts) ==
    /\ fnames' = fnames \o [i \in 1..Len(charts) |-> charts[i].fname]
    /\ saved' = saved \o charts
    /\ plotsDir' = plotsDir \cup {charts[i].fname : i \in 1..Len(charts)}

\* Mkdir as os.makedirs(..., exist_ok=True) would behave.
Mkdir_ExistOk ==
    /\ pc = "mkdir"
    /\ plotsExists' = TRUE
    /\ pc' = "load_output"
    /\ UNCHANGED <<err, configExists, plotsDir, opened, meta, history, init,
                   config, by_neighb, by_landlord, stats, neighborhoods,
                   landlords, fnames, saved, ii, gi, index, neighbs>>

\* line 12: os.mkdir(os.path.join(output_dir, 'plots'))
Mkdir ==
    /\ pc = "mkdir"
    /\ IF plotsExists
       THEN /\ Raise("FileExistsError")
            /\ UNCHANGED plotsExists
       ELSE /\ plotsExists' = TRUE
            /\ pc' = "load_output"
            /\ UNCHANGED err
    /\ UNCHANGED <<configExists, plotsDir, opened, meta, history, init, config,
                   by_neighb, by_landlord, stats, neighborhoods, landlords,
                   fnames, saved, ii, gi, index, neighbs>>

\* lines 13-17: output.json is read; its content is any of the run records
LoadOutput ==
    /\ pc = "load_output"
    /\ \E rec \in RunRecords :
           /\ meta' = rec.meta
           /\ history' = rec.history
           /\ init' = rec.init
    /\ opened' = Append(opened, "output.json")
    /\ pc' = "load_config"
    /\ UNCHANGED <<err, plotsExists, configExists, plotsDir, config, by_neighb,
                   by_landlord, stats, neighborhoods, landlords, fnames, saved,
                   ii, gi, index, neighbs>>

\* LoadConfig with a missing file read as no config.
LoadConfig_Optional ==
    /\ pc = "load_config"
    /\ config' = IF configExists THEN "{\"seed\": 1}" ELSE "null"
    /\ opened' = IF configExists THEN Append(opened, "config.yaml") ELSE opened
    /\ pc' = "neighb"
    /\ UNCHANGED <<err, plotsExists, configExists, plotsDir, meta, history, init,
                   by_neighb, by_landlord, stats, neighborhoods, landlords,
                   fnames, saved, ii, gi, index, neighbs>>

\* line 19: config = yaml.load(open(os.path.join(output_dir, 'config.yaml')))
LoadConfig ==
    /\ pc = "load_config"
    /\ IF configExists
       THEN /\ config' = "{\"seed\": 1}"
            /\ opened' = Append(opened, "config.yaml")
            /\ pc' = "neighb"
            /\ UNCHANGED err
       ELSE /\ Raise("FileNotFoundError")
            /\ UNCHANGED <<config, opened>>
    /\ UNCHANGED <<plotsExists, configExists, plotsDir, meta, history, init,
                   by_neighb, by_landlord, stats, neighborhoods, landlords,
                   fnames, saved, ii, gi, index, neighbs>>

\* line 22: the months popped before the comprehension ends or raises, those
\* up to (not including) the first without the field
PoppedNeighb(hist) ==
    {m \in 1..Len(hist) : \A m2 \in 1..m : hist[m2].hasNeighb}

\* line 30: likewise for 'landlords'
PoppedLandlords(hist) ==
    {m \in 1..Len(hist) : \A m2 \in 1..m : hist[m2].hasLandlords}

\* lines 22-27: pop 'neighborhoods' from every month, then regroup
ReshapeNeighborhoods ==
    /\ pc = "neighb"
    /\ LET lacks(h) == ~h.hasNeighb
           done == PoppedNeighb(history)
       IN  /\ history' = [m \in 1..Len(history) |->
                            IF m \in done
                            THEN [history[m] EXCEPT !.hasNeighb = FALSE,
                                                    !.neighborhoods = <<>>]
                            ELSE history[m]]
           /\ IF \E m \in 1..Len(history) : lacks(history[m])
              THEN /\ Raise("KeyError")
                   /\ UNCHANGED <<by_neighb, neighborhoods>>
              ELSE /\ by_neighb' = [m \in 1..Len(history) |-> history[m].neighborhoods]
                   /\ neighborhoods' = FoldBreakdown(<<>>, by_neighb', 1)
                   /\ pc' = "landlords"
                   /\ UNCHANGED err
    /\ UNCHANGED <<plotsExists, configExists, plotsDir, opened, meta, init,
                   config, by_landlord, stats, landlords, fnames, saved, ii, gi,
                   index, neighbs>>

\* lines 30-35: pop 'landlords' from every month, then regroup
ReshapeLandlords ==
    /\ pc = "landlords"
    /\ LET lacks(h) == ~h.hasLandlords
           done == PoppedLandlords(history)
       IN  /\ history' = [m \in 1..Len(history) |->
                            IF m \in done
                            THEN [history[m] EXCEPT !.hasLandlords = FALSE,
                                                    !.landlords = <<>>]
                            ELSE history[m]]
           /\ IF \E m \in 1..Len(history) : lacks(history[m])
              THEN /\ Raise("KeyError")
                   /\ UNCHANGED <<by_landlord, landlords>>
              ELSE /\ by_landlord' = [m \in 1..Len(history) |-> history[m].landlords]
                   /\ landlords' = FoldBreakdown(<<>>, by_landlord', 1)
                   /\ pc' = "stats"
                   /\ UNCHANGED err
    /\ UNCHANGED <<plotsExists, configExists, plotsDir, opened, meta, init,
                   config, by_neighb, stats, neighborhoods, fnames, saved, ii,
                   gi, index, neighbs>>

\* lines 37-43: what is left of each month goes to stats
AccumulateStats ==
    /\ pc = "stats"
    /\ stats' = FoldHistory(<<>>, history, 1)
    /\ pc' = "init"
    /\ UNCHANGED <<err, plotsExists, configExists, plotsDir, opened, meta,
                   history, init, config, by_neighb, by_landlord, neighborhoods,
                   landlords, fnames, saved, ii, gi, index, neighbs>>

\* lines 45-54: one pass of the init loop
InitHistogram ==
    /\ pc = "init"
    /\ ii <= Len(init)
    /\ Save(<<InitChart(init[ii][1], init[ii][2])>>)
    /\ ii' = ii + 1
    /\ UNCHANGED <<pc, err, plotsExists, configExists, opened, meta, history,
                   init, config, by_neighb, by_landlord, stats, neighborhoods,
                   landlords, gi, index, neighbs>>

\* lines 56-64
PlotRents ==
    /\ pc = "init"
    /\ ii > Len(init)
    /\ stats' = TouchAll(stats, rents_keys, 1)
    /\ Save(<<FixedChart("rents", rents_keys, stats')>>)
    /\ pc' = "doma_fund"
    /\ UNCHANGED <<err, plotsExists, configExists, opened, meta, history, init,
                   config, by_neighb, by_landlord, neighborhoods, landlords, ii,
                   gi, index, neighbs>>

\* lines 66-75
PlotDomaFund ==
    /\ pc = "doma_fund"
    /\ LET st == TouchAll(stats, fund_keys, 1)
       IN  /\ Save(<<FixedChart("doma_fund", fund_keys, st)>>)
           /\ stats' = Del(st, "min_value")
    /\ pc' = "generic"
    /\ UNCHANGED <<err, plotsExists, configExists, opened, meta, history, init,
                   config, by_neighb, by_landlord, neighborhoods, landlords, ii,
                   gi, index, neighbs>>

\* lines 77-112: one pass of the loop over stats.items()
GenericCharts ==
    /\ pc = "generic"
    /\ gi <= Len(stats)
    /\ LET k     == stats[gi][1]
           vals  == stats[gi][2]
           nb    == Has(neighborhoods, k)
           ll    == Has(landlords, k)
           nbErr == IF nb THEN NeighbError(k, vals) ELSE ""
           llErr == IF ll THEN LandlordError(k, vals) ELSE ""
           nbCh  == IF nb THEN <<NeighbChart(k, vals)>> ELSE <<>>
           llCh  == IF ll THEN <<LandlordChart(k, vals)>> ELSE <<>>
           solo  == IF IsSolo(nb, ll) THEN <<SoloChart(k, vals)>> ELSE <<>>
       IN  IF nbErr # ""
           THEN /\ Raise(nbErr)
                /\ UNCHANGED <<fnames, saved, plotsDir, gi>>
           ELSE IF llErr # ""
           THEN /\ Save(nbCh)
                /\ Raise(llErr)
                /\ UNCHANGED gi
           ELSE /\ Save(nbCh \o llCh \o solo)
                /\ gi' = gi + 1
                /\ UNCHANGED <<pc, err>>
    /\ UNCHANGED <<plotsExists, configExists, opened, meta, history, init,
                   config, by_neighb, by_landlord, stats, neighborhoods,
                   landlords, ii, index, neighbs>>

\* WriteIndex as meta.pop('neighborhoods', None) would behave.
WriteIndex_PopDefault ==
    /\ pc = "generic"
    /\ gi > Len(stats)
    /\ neighbs' = meta.neighborhoods
    /\ meta' = [meta EXCEPT !.hasNeighborhoods = FALSE, !.neighborhoods = <<>>]
    /\ index' = [written |-> TRUE,
                 imgs    |-> [i \in 1..Len(fnames) |-> ImgTag(fnames[i])],
                 meta    |-> meta'.other,
                 config  |-> config]
    /\ plotsDir' = plotsDir \cup {"index.html"}
    /\ pc' = "done"
    /\ UNCHANGED <<err, plotsExists, configExists, opened, history, init, config,
                   by_neighb, by_landlord, stats, neighborhoods, landlords,
                   fnames, saved, ii, gi>>

\* lines 114-134
WriteIndex ==
    /\ pc = "generic"
    /\ gi > Len(stats)
    /\ IF meta.hasNeighborhoods
       THEN /\ neighbs' = meta.neighborhoods
            /\ meta' = [meta EXCEPT !.hasNeighborhoods = FALSE, !.neighborhoods = <<>>]
            /\ index' = [written |-> TRUE,
                         imgs    |-> [i \in 1..Len(fnames) |-> ImgTag(fnames[i])],
                         meta    |-> meta'.other,
                         config  |-> config]
            /\ plotsDir' = plotsDir \cup {"index.html"}
            /\ pc' = "done"
            /\ UNCHANGED err
       ELSE /\ Raise("KeyError")
            /\ UNCHANGED <<meta, index, plotsDir, neighbs>>
    /\ UNCHANGED <<plotsExists, configExists, opened, history, init, config,
                   by_neighb, by_landlord, stats, neighborhoods, landlords,
                   fnames, saved, ii, gi>>

Next ==
    \/ Mkdir
    \/ LoadOutput
    \/ LoadConfig
    \/ ReshapeNeighborhoods
    \/ ReshapeLandlords
    \/ AccumulateStats
    \/ InitHistogram
    \/ PlotRents
    \/ PlotDomaFund
    \/ GenericCharts
    \/ WriteIndex

Spec == Init /\ [][Next]_vars

----------------------------------------------------------------------------
\* Properties.

Names(seq) == {seq[i].fname : i \in 1..Len(seq)}

\* The months of the loaded history whose scalar fields include k.
MonthsWith(k) == {m \in 1..Len(history) : Has(history[m].stats, k)}

\* The generic loop has finished its pass over stats[i].
PassDone(i) == pc \in {"generic", "failed", "done"} /\ i \in 1..(gi - 1)

RECURSIVE ExpectedGeneric(_)
ExpectedGeneric(i) ==
    IF i = 0 THEN 0
    ELSE LET k  == stats[i][1]
             nb == IF Has(neighborhoods, k) THEN 1 ELSE 0
             ll == IF Has(landlords, k) THEN 1 ELSE 0
         IN  ExpectedGeneric(i - 1) + (IF nb + ll = 0 THEN 1 ELSE nb + ll)

\* C1: when make_plots completes, the number of charts it generated is
\* len(init) + 2 + the sum over the keys left in stats of 1 for a key with no
\* breakdown, else one per breakdown it has; each is a file of its own in plots/.
C1_ChartCount ==
    pc = "done" =>
        /\ Len(saved) = Len(init) + 2 + ExpectedGeneric(Len(stats))
        /\ Cardinality(plotsDir \ {"index.html"}) = Len(saved)

C1_Witness ==
    /\ pc = "done"
    /\ Len(init) > 0
    /\ \E i \in 1..Len(stats) : Has(neighborhoods, stats[i][1]) /\ Has(landlords, stats[i][1])
    /\ \E i \in 1..Len(stats) : ~Has(neighborhoods, stats[i][1]) /\ Has(landlords, stats[i][1])
    /\ \E i \in 1..Len(stats) : ~Has(neighborhoods, stats[i][1]) /\ ~Has(landlords, stats[i][1])

\* C3: for every key the generic loop has passed, {k}_neighb.png was generated
\* iff k has a neighborhood breakdown, {k}_landlords.png iff k has a landlord
\* breakdown, and {k}.png iff k has neither.
C3_ChartSelection ==
    \A i \in 1..Len(stats) :
        PassDone(i) =>
            LET k == stats[i][1]
            IN  /\ (k \o "_neighb.png" \in Names(saved)) <=> Has(neighborhoods, k)
                /\ (k \o "_landlords.png" \in Names(saved)) <=> Has(landlords, k)
                /\ (k \o ".png" \in Names(saved)) <=>
                       (~Has(neighborhoods, k) /\ ~Has(landlords, k))

\* A finished run with a key that has both breakdowns, a key that has the
\* landlord breakdown alone and a key that has none.
C3_Witness ==
    /\ pc = "done"
    /\ \E i \in 1..Len(stats) :
           /\ Has(neighborhoods, stats[i][1]) /\ Has(landlords, stats[i][1])
           /\ stats[i][1] \o "_neighb.png" \in Names(saved)
           /\ stats[i][1] \o "_landlords.png" \in Names(saved)
    /\ \E i \in 1..Len(stats) :
           /\ ~Has(neighborhoods, stats[i][1]) /\ Has(landlords, stats[i][1])
           /\ stats[i][1] \o "_landlords.png" \in Names(saved)
    /\ \E i \in 1..Len(stats) : stats[i][1] \o ".png" \in Names(saved)

HasLine(chart, label) == \E j \in 1..Len(chart.lines) : chart.lines[j].label = label

\* C4: the min_value series is a line of doma_fund.png whenever that chart is
\* generated, and no other generated chart is about min_value: none is named
\* min_value.png, min_value_neighb.png or min_value_landlords.png, none has
\* that title or a line of that label.
C4_MinValueOnlyInFund ==
    /\ {"min_value.png", "min_value_neighb.png", "min_value_landlords.png"}
           \cap (Names(saved) \cup Range(fnames) \cup plotsDir) = {}
    /\ \A i \in 1..Len(saved) :
           IF saved[i].fname = "doma_fund.png"
           THEN \E j \in 1..Len(saved[i].lines) :
                    /\ saved[i].lines[j].label = "min_value"
                    /\ Len(saved[i].lines[j].ys) = Cardinality(MonthsWith("min_value"))
           ELSE saved[i].title # "min_value" /\ ~HasLine(saved[i], "min_value")

C4_Witness ==
    /\ pc = "done"
    /\ MonthsWith("min_value") # {}
    /\ Has(neighborhoods, "min_value")
    /\ Has(landlords, "min_value")
    /\ \E i \in 1..Len(saved) : saved[i].fname = "doma_fund.png"

\* The months in which breakdown `by` gives entity id a value for k.
MonthsWithIn(by, k, id) ==
    {m \in 1..Len(by) : Has(by[m], id) /\ Has(Get(by[m], id), k)}

AfterReshape == pc \in {"init", "doma_fund", "generic", "done"}

\* A chart of series (not an init histogram).
IsSeriesChart(chart) == chart.hist = <<>>

\* C2 as stated: after the reshaping step every derived series, and every
\* series plotted, has length len(history).
C2_AllSeriesLenHistory ==
    AfterReshape =>
        /\ \A i \in 1..Len(stats) : Len(stats[i][2]) = Len(history)
        /\ \A i \in 1..Len(neighborhoods) : \A j \in 1..Len(neighborhoods[i][2]) :
               Len(neighborhoods[i][2][j][2]) = Len(history)
        /\ \A i \in 1..Len(landlords) : \A j \in 1..Len(landlords[i][2]) :
               Len(landlords[i][2][j][2]) = Len(history)
        /\ \A i \in 1..Len(saved) :
               IsSeriesChart(saved[i]) =>
                   \A j \in 1..Len(saved[i].lines) :
                       Len(saved[i].lines[j].ys) = Len(history)

\* The breakdown series drawn as line j + 1 of a generic chart.
BreakdownOf(chart) ==
    IF chart.fname = chart.title \o "_neighb.png" THEN Get(neighborhoods, chart.title)
    ELSE IF chart.fname = chart.title \o "_landlords.png" THEN Get(landlords, chart.title)
    ELSE <<>>

\* C2 amended: every derived series has one value per month in which its key
\* (for its neighborhood or landlord id) is present, so its length is at most
\* len(history), and is len(history) exactly when the key is present in every
\* month; the series plotted are these series.
C2_SeriesLenIsMonthsPresent ==
    /\ \A i \in 1..Len(stats) :
           /\ Len(stats[i][2]) = Cardinality(MonthsWith(stats[i][1]))
           /\ Len(stats[i][2]) <= Len(history)
    /\ \A i \in 1..Len(neighborhoods) : \A j \in 1..Len(neighborhoods[i][2]) :
           /\ Len(neighborhoods[i][2][j][2]) =
                  Cardinality(MonthsWithIn(by_neighb, neighborhoods[i][1],
                                           neighborhoods[i][2][j][1]))
           /\ Len(neighborhoods[i][2][j][2]) <= Len(history)
    /\ \A i \in 1..Len(landlords) : \A j \in 1..Len(landlords[i][2]) :
           /\ Len(landlords[i][2][j][2]) =
                  Cardinality(MonthsWithIn(by_landlord, landlords[i][1],
                                           landlords[i][2][j][1]))
           /\ Len(landlords[i][2][j][2]) <= Len(history)
    /\ \A i \in 1..Len(saved) :
           LET c == saved[i]
           IN  IsSeriesChart(c) =>
                   IF c.fname \in {"rents.png", "doma_fund.png"}
                   THEN \A j \in 1..Len(c.lines) :
                            Len(c.lines[j].ys) = Cardinality(MonthsWith(c.lines[j].label))
                   ELSE /\ Len(c.lines[1].ys) = Cardinality(MonthsWith(c.title))
                        /\ Len(c.lines) = 1 + Len(BreakdownOf(c))
                        /\ \A j \in 1..Len(BreakdownOf(c)) :
                               c.lines[j + 1].ys = BreakdownOf(c)[j][2]

C2_Witness ==
    /\ pc = "done"
    /\ Len(history) = 2
    /\ \E i \in 1..Len(saved) :
           /\ saved[i].fname = "vacant.png"
           /\ Len(saved[i].lines[1].ys) = 1
    /\ \E i \in 1..Len(saved) :
           /\ saved[i].fname = "rent_neighb.png"
           /\ Len(saved[i].lines) > 1
           /\ Len(saved[i].lines[2].ys) = 2

\* C5: if plots/ existed when make_plots was invoked, the run is at its first
\* step or has failed with the already-exists error, no input file has been
\* opened, no chart and no index.html written, and plots/ holds what it held.
C5_ExistingPlotsAbort ==
    "old_stat.png" \in plotsDir =>
        \/ pc = "mkdir" /\ err = ""
        \/ /\ pc = "failed"
           /\ err = "FileExistsError"
           /\ opened = <<>>
           /\ saved = <<>>
           /\ fnames = <<>>
           /\ ~index.written
           /\ plotsDir = OldPlots

C5_Witness ==
    /\ pc = "failed"
    /\ err = "FileExistsError"
    /\ plotsDir = OldPlots

\* C7 as stated: without a config file the run is not ended for lack of it.
C7_ConfigOptional ==
    ~configExists => ~(pc = "failed" /\ err = "FileNotFoundError")

\* C7 amended: config.yaml is required.  Without it the run gets no further
\* than opening it: it fails there with the file-not-found error, after
\* plots/ was created and output.json read, with no chart and no index.html
\* written; an index.html is only ever written with the config loaded.
C7_ConfigRequired ==
    /\ ~configExists =>
           /\ pc \in {"mkdir", "load_output", "load_config", "failed"}
           /\ pc = "failed" => err \in {"FileExistsError", "FileNotFoundError"}
           /\ (pc = "failed" /\ err = "FileNotFoundError") =>
                  opened = <<"output.json">> /\ plotsExists
           /\ saved = <<>>
           /\ plotsDir \in {{}, OldPlots}
           /\ ~index.written
    /\ index.written =>
           /\ configExists
           /\ opened = <<"output.json", "config.yaml">>
           /\ index.config = config

C7_Witness ==
    /\ ~configExists
    /\ pc = "failed"
    /\ err = "FileNotFoundError"
    /\ opened = <<"output.json">>
    /\ plotsDir = {}

ExpectedKeys == Range(rents_keys) \cup Range(fund_keys)

\* C6 as stated: a run never completes with an expected stat field absent
\* from every month.
C6_AbsentFieldAborts ==
    pc = "done" => \A k \in ExpectedKeys : MonthsWith(k) # {}

Last(s) == s[Len(s)]

\* The fixed chart just saved draws every key of ks, an absent one as an
\* empty series, and leaves every key of ks in stats.
FixedChartDrawn(name, ks) ==
    /\ err' = ""
    /\ Len(saved') = Len(saved) + 1
    /\ Last(saved').fname = name
    /\ Len(Last(saved').lines) = Len(ks)
    /\ \A i \in 1..Len(ks) :
           /\ Last(saved').lines[i].label = ks[i]
           /\ MonthsWith(ks[i]) = {} => Last(saved').lines[i].ys = <<>>
           /\ ks[i] # "min_value" => Has(stats', ks[i])

\* C6 amended: with the meta field neighborhoods absent the run never
\* completes and never writes index.html, and if it gets past the chart loops
\* it ends with KeyError at the pop.  An absent expected stat field raises
\* nothing: the fixed chart is generated with an empty series for it, and the
\* key joins stats, so that once the generic loop is through every such key
\* but min_value has a generic chart of its own.
C6_AbsentFields ==
    [][ /\ (pc \notin {"mkdir", "load_output", "done"} /\ ~meta.hasNeighborhoods) =>
               pc' # "done" /\ ~index'.written
        /\ (pc = "generic" /\ gi > Len(stats) /\ ~meta.hasNeighborhoods) =>
               pc' = "failed" /\ err' = "KeyError"
        /\ (pc = "init" /\ ii > Len(init)) =>
               pc' = "doma_fund" /\ FixedChartDrawn("rents.png", rents_keys)
        /\ pc = "doma_fund" =>
               pc' = "generic" /\ FixedChartDrawn("doma_fund.png", fund_keys)
        /\ (pc = "generic" /\ gi > Len(stats)) =>
               \A k \in ExpectedKeys \ {"min_value"} :
                   k \o ".png" \in Names(saved) \/ k \o "_neighb.png" \in Names(saved)
                       \/ k \o "_landlords.png" \in Names(saved)
      ]_vars

C6_Witness ==
    /\ pc = "failed"
    /\ err = "KeyError"
    /\ ~meta.hasNeighborhoods
    /\ gi > Len(stats)
    /\ Len(history) > 0
    /\ MonthsWith("mean_value") = {}
    /\ "mean_value.png" \in Names(saved)
    /\ "doma_fund.png" \in Names(saved)
    /\ ~index.written

\* The id -> entry mapping of meta['neighborhoods'] the charts were labeled from.
NeighbNames == IF pc = "done" THEN neighbs ELSE meta.neighborhoods

IsNeighbChart(c) == IsSeriesChart(c) /\ c.fname = c.title \o "_neighb.png"

IsLandlordChart(c) == IsSeriesChart(c) /\ c.fname = c.title \o "_landlords.png"

\* C8 as stated: a neighborhood whose id is not in meta['neighborhoods'] is
\* labeled with its raw id.
C8_RawIdLabel ==
    \A i \in 1..Len(saved) :
        IsNeighbChart(saved[i]) =>
            \A j \in 1..Len(BreakdownOf(saved[i])) :
                LET id == BreakdownOf(saved[i])[j][1]
                IN  saved[i].lines[j + 1].label =
                        IF Has(NeighbNames, id) THEN Get(NeighbNames, id).name ELSE id

\* C8 amended: in every neighborhood chart each neighborhood's line is labeled
\* with the name of its meta['neighborhoods'] entry when its id is there, and
\* otherwise with "Neighborhood " followed by its id.
C8_DefaultLabel ==
    \A i \in 1..Len(saved) :
        IsNeighbChart(saved[i]) =>
            \A j \in 1..Len(BreakdownOf(saved[i])) :
                LET id == BreakdownOf(saved[i])[j][1]
                IN  saved[i].lines[j + 1].label =
                        IF Has(NeighbNames, id) THEN Get(NeighbNames, id).name
                        ELSE "Neighborhood " \o id

C8_Witness ==
    \E i \in 1..Len(saved) :
        /\ IsNeighbChart(saved[i])
        /\ HasLine(saved[i], "Alpha")
        /\ HasLine(saved[i], "Neighborhood B")

\* C9: in every landlord chart the line of landlord "-1" is labeled DOMA and
\* colored #f771b4, and the line of any other landlord id is labeled
\* "Landlord {id}", wherever "-1" stands among the ids.
C9_DomaLine ==
    \A i \in 1..Len(saved) :
        IsLandlordChart(saved[i]) =>
            \A j \in 1..Len(BreakdownOf(saved[i])) :
                LET id == BreakdownOf(saved[i])[j][1]
                    ln == saved[i].lines[j + 1]
                IN  IF id = "-1"
                    THEN ln.label = "DOMA" /\ ln.color = "#f771b4"
                    ELSE ln.label = "Landlord " \o id

C9_Witness ==
    \E i \in 1..Len(saved) :
        /\ IsLandlordChart(saved[i])
        /\ Len(saved[i].lines) = 4
        /\ BreakdownOf(saved[i])[2][1] = "-1"
        /\ saved[i].lines[2].label = "Landlord 0"
        /\ saved[i].lines[3].label = "DOMA"
        /\ saved[i].lines[4].label = "Landlord 1"

RECURSIVE Dedup(_)
Dedup(s) ==
    IF s = <<>> THEN <<>>
    ELSE LET f == Dedup(Front(s))
         IN  IF Last(s) \in Range(f) THEN f ELSE Append(f, Last(s))

RECURSIVE FlatKeys(_)
FlatKeys(m) == IF m = 0 THEN <<>> ELSE FlatKeys(m - 1) \o Keys(history[m].stats)

\* The stat keys in order of first appearance: in the history, then in the
\* reads of the two fixed charts; min_value is gone by the generic loop.
StatKeyOrder ==
    SelectSeq(Dedup(FlatKeys(Len(history)) \o rents_keys \o fund_keys),
              LAMBDA k : k # "min_value")

RECURSIVE GenericNames(_)
GenericNames(ks) ==
    IF ks = <<>> THEN <<>>
    ELSE LET k  == Last(ks)
             nb == Has(neighborhoods, k)
             ll == Has(landlords, k)
         IN  GenericNames(Front(ks))
                 \o (IF nb THEN <<k \o "_neighb.png">> ELSE <<>>)
                 \o (IF ll THEN <<k \o "_landlords.png">> ELSE <<>>)
                 \o (IF ~nb /\ ~ll THEN <<k \o ".png">> ELSE <<>>)

ExpectedFnames ==
    [i \in 1..Len(init) |-> init[i][1] \o "_init.png"]
        \o <<"rents.png", "doma_fund.png">> \o GenericNames(StatKeyOrder)

\* C10: when make_plots completes, index.html holds one image reference per
\* generated chart, in the order the charts were saved: the init histograms
\* in init key order, rents.png, doma_fund.png, then the generic charts in
\* stat-key first-appearance order, a key's neighborhood chart before its
\* landlord chart.
C10_IndexOrder ==
    pc = "done" =>
        /\ index.written
        /\ index.imgs = [i \in 1..Len(saved) |-> ImgTag(saved[i].fname)]
        /\ [i \in 1..Len(saved) |-> saved[i].fname] = ExpectedFnames

C10_Witness ==
    /\ pc = "done"
    /\ Len(init) = 2
    /\ Len(history) = 2
    /\ Keys(history[1].stats) # Keys(history[2].stats)
    /\ \E i \in 1..(Len(index.imgs) - 1) :
           /\ index.imgs[i] = ImgTag("rent_neighb.png")
           /\ index.imgs[i + 1] = ImgTag("rent_landlords.png")

====
